---- MODULE Spec2Model ----
(***************************************************************************)
(* Model of src/lib/index.js: scrapeIt.scrapeHTML, handleDataObj and       *)
(* normalizeOpt.  A schema lives in a heap of JavaScript objects (field    *)
(* definition objects and `data` objects, addressed by reference), because *)
(* normalizeOpt and handleDataObj write into the objects they are given.   *)
(* The document is a parsed tree; the part of cheerio the code calls       *)
(* ($(selector, context), eq, contents, closest, text, html, attr and      *)
(* cheerio.load('')) is modelled on tag-name selectors.                    *)
(***************************************************************************)
EXTENDS Integers, Sequences, FiniteSets, TLC

VARIABLES doc, schema0, defs, datas, calls, outcome, trace

vars == <<doc, schema0, defs, datas, calls, outcome, trace>>

\* ------------------------------------------------------------------ bounds
\* number of successive scrapeHTML calls on the same schema object
MaxCalls == 2
\* number of options a generated field definition sets
MaxOpts == 3

\* ------------------------------------------------------------- JS values
NONE == "none"
Undefined == [t |-> "undefined"]
Null == [t |-> "null"]
Str(s) == [t |-> "str", s |-> s]
Num(n) == [t |-> "num", n |-> n]
EmptyFn == [k \in {} |-> 0]
Rec(f) == [t |-> "rec", f |-> f]
List(items) == [t |-> "list", items |-> items]
EmptyStr == Str(<<>>)

\* JavaScript truthiness of a value (the `||` of line 172)
Truthy(v) ==
  CASE v.t = "undefined" -> FALSE
    [] v.t = "null" -> FALSE
    [] v.t = "str" -> v.s # <<>>
    [] v.t = "num" -> v.n # 0
    [] OTHER -> TRUE

IsWs(c) == c = " "

RECURSIVE TrimLeft(_)
TrimLeft(s) == IF s # <<>> /\ IsWs(Head(s)) THEN TrimLeft(Tail(s)) ELSE s

RECURSIVE TrimRight(_)
TrimRight(s) ==
  IF s # <<>> /\ IsWs(s[Len(s)]) THEN TrimRight(SubSeq(s, 1, Len(s) - 1)) ELSE s

\* String.prototype.trim
Trim(s) == TrimRight(TrimLeft(s))

\* -------------------------------------------------------------- documents
Tag(name, parent, attrs) ==
  [type |-> "tag", name |-> name, parent |-> parent, data |-> <<>>, attrs |-> attrs]
Text(parent, data) ==
  [type |-> "text", name |-> "#text", parent |-> parent, data |-> data, attrs |-> EmptyFn]

\* <div> a <p href="u"> b<span>c</span>d </p>
\*   <ul><li>x</li><li></li><li><span> y </span></li></ul><p> e</p></div><li>z</li>
Doc1 ==
  << Tag("div", 0, EmptyFn),
     Text(1, <<" ", "a", " ">>),
     Tag("p", 1, [href |-> <<"u">>]),
     Text(3, <<" ", "b">>),
     Tag("span", 3, EmptyFn),
     Text(5, <<"c">>),
     Text(3, <<"d", " ">>),
     Tag("ul", 1, EmptyFn),
     Tag("li", 8, EmptyFn),
     Text(9, <<"x">>),
     Tag("li", 8, EmptyFn),
     Tag("li", 8, EmptyFn),
     Tag("span", 12, EmptyFn),
     Text(13, <<" ", "y", " ">>),
     Tag("p", 1, EmptyFn),
     Text(15, <<" ", "e">>),
     Tag("li", 0, EmptyFn),
     Text(17, <<"z">>) >>

\* <p href=" v "> <span>k</span></p>
Doc2 ==
  << Tag("p", 0, [href |-> <<" ", "v", " ">>]),
     Text(1, <<" ">>),
     Tag("span", 1, EmptyFn),
     Text(3, <<"k">>) >>

Docs == <<Doc1, Doc2>>

AllIds(d) == [i \in 1..Len(d) |-> i]

RECURSIVE IsDescendant(_, _, _)
IsDescendant(d, n, a) ==
  LET p == d[n].parent IN IF p = 0 THEN FALSE ELSE p = a \/ IsDescendant(d, p, a)

Children(d, n) == SelectSeq(AllIds(d), LAMBDA c: d[c].parent = n)

IsTag(d, n, sel) == d[n].type = "tag" /\ d[n].name = sel

\* ------------------------------------------- what a variable can refer to
\* undefined, a cheerio selection, a raw DOM node, the function returned by
\* cheerio.load(''), or $ itself
Undef == [t |-> "elem", k |-> "undef", ns |-> <<>>]
Set(ns) == [t |-> "elem", k |-> "set", ns |-> ns]
RawNode(n) == [t |-> "elem", k |-> "raw", ns |-> <<n>>]
LoadedEmpty == [t |-> "elem", k |-> "empty$", ns |-> <<>>]
Dollar == [t |-> "elem", k |-> "dollar", ns |-> <<>>]

InScope(d, n, ns) == \E i \in 1..Len(ns) : IsDescendant(d, n, ns[i])

\* $(selector, context): the matches in document order; an absent context is
\* the document root, a selection is searched with find(), a context with no
\* element children has no matches
Query(d, sel, ctx) ==
  CASE ctx.k = "undef" -> Set(SelectSeq(AllIds(d), LAMBDA n: IsTag(d, n, sel)))
    [] ctx.k = "set" ->
         Set(SelectSeq(AllIds(d), LAMBDA n: IsTag(d, n, sel) /\ InScope(d, n, ctx.ns)))
    [] OTHER -> Set(<<>>)

\* selection.eq(i)
Eq(el, i) == IF i + 1 \in 1..Len(el.ns) THEN Set(<<el.ns[i + 1]>>) ELSE Set(<<>>)

\* selection.contents(): the direct children of the selected elements
Contents(d, el) ==
  SelectSeq(AllIds(d), LAMBDA c: \E i \in 1..Len(el.ns) : d[c].parent = el.ns[i])

RECURSIVE ClosestOf(_, _, _)
ClosestOf(d, n, sel) ==
  IF n = 0 THEN 0 ELSE IF IsTag(d, n, sel) THEN n ELSE ClosestOf(d, d[n].parent, sel)

\* selection.closest(selector): nearest matching ancestor-or-self of each element
Closest(d, el, sel) ==
  LET hit == {ClosestOf(d, el.ns[i], sel) : i \in 1..Len(el.ns)} \ {0}
  IN Set(SelectSeq(AllIds(d), LAMBDA n: n \in hit))

RECURSIVE Flatten(_, _)
Flatten(d, ids) == IF ids = <<>> THEN <<>> ELSE d[Head(ids)].data \o Flatten(d, Tail(ids))

NodeText(d, n) ==
  Flatten(d, SelectSeq(AllIds(d), LAMBDA c: d[c].type = "text" /\ IsDescendant(d, c, n)))

RECURSIVE TextOf(_, _)
\* selection.text(): the combined text of every selected element
TextOf(d, ns) == IF ns = <<>> THEN <<>> ELSE NodeText(d, Head(ns)) \o TextOf(d, Tail(ns))

RECURSIVE Markup(_, _)
Markup(d, ids) ==
  IF ids = <<>> THEN <<>>
  ELSE LET c == Head(ids)
           one == IF d[c].type = "text" THEN d[c].data
                  ELSE <<"<" \o d[c].name \o ">">> \o Markup(d, Children(d, c))
                         \o <<"</" \o d[c].name \o ">">>
       IN one \o Markup(d, Tail(ids))

\* selection.html(): null on an empty selection, else the first element's markup
HtmlOf(d, ns) == IF ns = <<>> THEN Null ELSE Str(Markup(d, Children(d, Head(ns))))

\* selection.attr(name): the first element's attribute, undefined if absent
AttrOf(d, ns, name) ==
  IF ns # <<>> /\ name \in DOMAIN d[Head(ns)].attrs
  THEN Str(d[Head(ns)].attrs[name]) ELSE Undefined

TypeError == [t |-> "throw", code |-> "TypeError"]
\* the Err of lines 146-152, carrying the descriptor as `option`
NoElementSelected(value) ==
  [t |-> "throw", code |-> "NO_ELEMENT_SELECTED", option |-> value]
IsThrow(v) == v.t = "throw"

\* ------------------------------------------------------- schema objects
\* how: absent, a built-in accessor name, a caller's function, the attribute
\* reader of line 235 or the text-node reader of line 200
NoHow == [t |-> "none", n |-> ""]
Name(n) == [t |-> "name", n |-> n]
UserFn == [t |-> "fn", n |-> "user"]
AttrReader(a) == [t |-> "attr", n |-> a]
DataReader == [t |-> "data", n |-> ""]

\* a field definition object with no key set: {}
EmptyDef ==
  [selector |-> NONE, listItem |-> NONE, data |-> <<>>, how |-> NoHow, attr |-> NONE,
   trimValue |-> NONE, closest |-> NONE, eq |-> <<>>, texteq |-> <<>>,
   convert |-> NONE, name |-> NONE]

\* an entry of a schema or `data` object: key -> string shorthand or object
StrField(k, s) == [k |-> k, t |-> "str", s |-> s, r |-> 0]
RefField(k, r) == [k |-> k, t |-> "ref", s |-> "", r |-> r]

\* a string option that is set and not ''
Given(s) == s # NONE /\ s # ""

\* extraction state threaded through one call: the heap and the call record
Heap(df, dt, tr) == [defs |-> df, datas |-> dt, trace |-> tr]
Ret(st, val) == [st |-> st, val |-> val]

\* the caller's convert: x => {wrapped x}, an injective function of its argument
Conv(x) == [t |-> "conv", of |-> x]

\* the caller's `how` function: a number, never a string
UserHow(el) == Num(Len(el.ns) + 1)

\* ----------------------------------------------------------- normalizeOpt
\* lines 227-229: a string becomes a new object {selector: v}
WrapString(st, fd) ==
  IF fd.t = "str"
  THEN Ret([st EXCEPT !.defs = Append(@, [EmptyDef EXCEPT !.selector = fd.s])],
           Len(st.defs) + 1)
  ELSE Ret(st, fd.r)

\* line 231, objDef(v, 'data', {}): an absent data becomes a new empty object
DefData(st, v) ==
  IF st.defs[v].data = <<>>
  THEN [st EXCEPT !.datas = Append(@, <<>>), !.defs[v].data = <<Len(st.datas) + 1>>]
  ELSE st

\* line 232, objDef(v, 'how', 'text', true): v.how || 'text'
DefHow(st, v) ==
  IF st.defs[v].how.t = "none" THEN [st EXCEPT !.defs[v].how = Name("text")] ELSE st

\* attr replacing only a defaulted how
AttrHowUnlessExplicit(st, v) ==
  IF Given(st.defs[v].attr) /\ st.defs[v].how = Name("text")
  THEN [st EXCEPT !.defs[v].how = AttrReader(st.defs[v].attr)] ELSE st

\* lines 234-236: attr replaces how
AttrHow(st, v) ==
  IF Given(st.defs[v].attr)
  THEN [st EXCEPT !.defs[v].how = AttrReader(st.defs[v].attr)] ELSE st

\* objDef filling by `v.trimValue || true`: false is replaced as well
DefTrimOr(st, v) == [st EXCEPT !.defs[v].trimValue = "true"]

\* line 238, objDef(v, 'trimValue', true): a boolean is kept, else true
DefTrim(st, v) ==
  IF st.defs[v].trimValue \in {"true", "false"} THEN st
  ELSE [st EXCEPT !.defs[v].trimValue = "true"]

\* line 239, objDef(v, 'closest', ''): a string is kept, else ''
DefClosest(st, v) ==
  IF st.defs[v].closest = NONE THEN [st EXCEPT !.defs[v].closest = ""] ELSE st

\* returns the heap and the reference of the (given or new) object v
normalizeOpt(st, fd) ==
  LET w == WrapString(st, fd)
      v == w.val
  IN Ret(DefClosest(DefTrim(AttrHow(DefHow(DefData(w.st, v), v), v), v), v), v)

\* ---------------------------------------------------------- handleDataObj
\* line 145: the root check compares the context with $
RootCheck(value, context) ==
  context = Dollar /\ ~Given(value.selector) /\ ~Given(value.listItem)

\* line 155
SelectElement(d, value, context) ==
  IF Given(value.selector) THEN Query(d, value.selector, context) ELSE context

\* the items queried inside the element resolved from `selector`
ListItemsInElement(d, value, context, element) == Query(d, value.listItem, element)

\* line 159: the items of a list field
ListItems(d, value, context, element) == Query(d, value.listItem, context)

\* line 163: an empty data object gets the key ___raw, bound to a new {}
RawShortcut(st, v) ==
  LET dr == st.defs[v].data[1]
  IN IF st.datas[dr] = <<>>
     THEN [st EXCEPT !.defs = Append(@, EmptyDef),
                     !.datas[dr] = <<RefField("___raw", Len(st.defs) + 1)>>]
     ELSE st

\* line 172: doc.___raw || doc
Unwrap(item) ==
  LET raw == IF "___raw" \in DOMAIN item.f THEN item.f["___raw"] ELSE Undefined
  IN IF Truthy(raw) THEN raw ELSE item

\* lines 177-179: element.eq(value.eq); only a selection has eq()
SelectEq(value, el) ==
  IF value.eq = <<>> THEN el
  ELSE IF el.k = "set" THEN Eq(el, value.eq[1]) ELSE TypeError

\* lines 181-198: the texteq-th direct text child, else cheerio.load('')
SelectText(d, value, el) ==
  IF value.texteq = <<>> THEN el
  ELSE IF el.k # "set" THEN TypeError
  ELSE LET kids == SelectSeq(Contents(d, el), LAMBDA c: d[c].type = "text")
       IN IF value.texteq[1] + 1 \in 1..Len(kids)
          THEN RawNode(kids[value.texteq[1] + 1]) ELSE LoadedEmpty

\* line 200: texteq replaces how in the descriptor
TextHow(st, v) ==
  IF st.defs[v].texteq # <<>> THEN [st EXCEPT !.defs[v].how = DataReader] ELSE st

\* line 204: element.closest(value.closest); only a selection has closest()
SelectClosest(d, value, el) ==
  IF ~Given(value.closest) THEN el
  ELSE IF el.k = "set" THEN Closest(d, el, value.closest) ELSE TypeError

\* line 212: typpy(how, Function) ? how(element) : element[how]()
ReadKey(d, how, el) ==
  CASE how.t = "fn" -> UserHow(el)
    [] how.t = "attr" -> IF el.k = "set" THEN AttrOf(d, el.ns, how.n) ELSE TypeError
    [] how.t = "data" ->
         CASE el.k = "raw" -> Str(d[el.ns[1]].data)
           [] el.k = "empty$" -> Undefined
           [] el.k = "set" -> [t |-> "function"]
           [] OTHER -> TypeError
    [] how.t = "name" ->
         CASE el.k = "set" ->
                IF how.n = "html" THEN HtmlOf(d, el.ns) ELSE Str(TextOf(d, el.ns))
           [] el.k = "empty$" -> EmptyStr
           [] OTHER -> TypeError
    [] OTHER -> TypeError

\* line 213
OrEmpty(key) == IF key = Undefined THEN EmptyStr ELSE key

\* line 215
TrimStep(value, key) ==
  IF value.trimValue = "true" /\ key.t = "str" THEN Str(Trim(key.s)) ELSE key

\* line 217
ConvertStep(value, key) == IF value.convert # NONE THEN Conv(key) ELSE key

Log(st, ev) == [st EXCEPT !.trace = Append(@, ev)]

\* lines 212-219: the value of a scalar field
ExtractValue(st, d, v, el, given) ==
  LET value == st.defs[v]
      got == ReadKey(d, value.how, el)
  IN IF IsThrow(got) THEN Ret(st, got)
     ELSE LET raw == OrEmpty(got)
              post == TrimStep(value, raw)
              stored == ConvertStep(value, post)
              s1 == Log(st, [e |-> "scalar", name |-> value.name, given |-> given,
                             elem |-> el, raw |-> raw, post |-> post, stored |-> stored])
              s2 == IF value.convert # NONE
                    THEN Log(s1, [e |-> "convert", name |-> value.name, list |-> FALSE,
                                  arg |-> post, elem |-> el])
                    ELSE s1
          IN Ret(s2, stored)

RECURSIVE handleDataObj(_, _, _, _)
RECURSIVE FieldsLoop(_, _, _, _, _, _)
RECURSIVE handleField(_, _, _, _)
RECURSIVE ItemsLoop(_, _, _, _, _, _)

\* lines 165-175: one recursive call and one convert per item
ItemsLoop(st, d, v, items, i, acc) ==
  IF i >= Len(items.ns) THEN Ret(st, List(acc))
  ELSE LET r == handleDataObj(st, d, st.defs[v].data[1], Eq(items, i))
       IN IF IsThrow(r.val) THEN r
          ELSE LET value == r.st.defs[v]
                   arg == Unwrap(r.val)
                   s2 == IF value.convert # NONE
                         THEN Log(r.st, [e |-> "convert", name |-> value.name,
                                         list |-> TRUE, arg |-> arg, elem |-> Undefined])
                         ELSE r.st
               IN ItemsLoop(s2, d, v, items, i + 1, Append(acc, ConvertStep(value, arg)))

\* lines 158-175
ListField(st, d, v, context, element) ==
  LET value == st.defs[v]
      items == ListItems(d, value, context, element)
      s1 == Log(st, [e |-> "list", name |-> value.name, selector |-> value.selector,
                     listItem |-> value.listItem, context |-> context,
                     element |-> element, items |-> items.ns])
  IN ItemsLoop(RawShortcut(s1, v), d, v, items, 0, <<>>)

\* lines 176-220
ScalarField(st, d, v, element, given) ==
  LET value == st.defs[v]
      e1 == SelectEq(value, element)
      e2 == SelectText(d, value, e1)
      s2 == TextHow(st, v)
      e3 == SelectClosest(d, value, e2)
  IN IF IsThrow(e1) THEN Ret(st, e1)
     ELSE IF IsThrow(e2) THEN Ret(st, e2)
     ELSE IF IsThrow(e3) THEN Ret(s2, e3)
     ELSE IF s2.datas[value.data[1]] # <<>>
          THEN handleDataObj(s2, d, value.data[1], e3)
          ELSE ExtractValue(s2, d, v, e3, given)

\* lines 141-220: one iteration of the loop over Object.entries(data)
handleField(st, d, fd, context) ==
  LET given == IF fd.t = "str" THEN [EmptyDef EXCEPT !.selector = fd.s] ELSE st.defs[fd.r]
      n == normalizeOpt(st, fd)
      v == n.val
      s1 == [n.st EXCEPT !.defs[v].name = fd.k]
      value == s1.defs[v]
  IN IF RootCheck(value, context) THEN Ret(s1, NoElementSelected(value))
     ELSE IF Given(value.listItem)
          THEN ListField(s1, d, v, context, SelectElement(d, value, context))
          ELSE ScalarField(s1, d, v, SelectElement(d, value, context), given)

FieldsLoop(st, d, entries, i, context, pageData) ==
  IF i > Len(entries) THEN Ret(st, Rec(pageData))
  ELSE LET r == handleField(st, d, entries[i], context)
       IN IF IsThrow(r.val) THEN r
          ELSE FieldsLoop(r.st, d, entries, i + 1, context,
                          (entries[i].k :> r.val) @@ pageData)

\* lines 138-224
handleDataObj(st, d, data, context) ==
  FieldsLoop(st, d, st.datas[data], 1, context, EmptyFn)

\* lines 130-136: handleDataObj($, opts) is called with no context argument;
\* the schema is object 1 of the heap
scrapeHTML(st, d) == handleDataObj(st, d, 1, Undef)

\* ------------------------------------------------- the schemas explored
\* The caller's schema is heap object datas[1]; its fields refer to the
\* definition objects defs[1] (A) and defs[2] (B); datas[2] (D) is the `data`
\* object A and B may both refer to, and defs[3] (C) a field definition in D.
FieldDefs ==
  [selector : {NONE, "p", "ul", "x"}, listItem : {NONE, "li"}, data : {<<>>, <<2>>},
   how : {NoHow, Name("html"), UserFn}, attr : {NONE, "href"},
   trimValue : {NONE, "true", "false"}, closest : {NONE, "div"},
   eq : {<<>>, <<0>>, <<1>>}, texteq : {<<>>, <<1>>}, convert : {NONE, "conv"},
   name : {NONE}]

NumOpts(f) == Cardinality({k \in DOMAIN EmptyDef : f[k] # EmptyDef[k]})

DefsA == {f \in FieldDefs : NumOpts(f) <= MaxOpts}

DefsB ==
  { EmptyDef,
    [EmptyDef EXCEPT !.listItem = "li", !.data = <<2>>],
    [EmptyDef EXCEPT !.selector = "p", !.data = <<2>>] }

DefsC ==
  {EmptyDef, [EmptyDef EXCEPT !.trimValue = "false"], [EmptyDef EXCEPT !.listItem = "li"]}

DataObjs ==
  { <<>>, <<StrField("c", "span")>>, <<StrField("___raw", "span")>>,
    <<RefField("c", 3)>> }

Roots ==
  { <<RefField("a", 1)>>,
    <<RefField("a", 1), RefField("b", 2)>>,
    <<StrField("a", "p"), RefField("b", 1)>>,
    <<RefField("a", 1), RefField("b", 1)>> }

UsesRef(entries, r) == \E i \in 1..Len(entries) : entries[i].t = "ref" /\ entries[i].r = r

\* objects the schema does not reach are left empty
WellFormed(R, A, B, C, D) ==
  /\ UsesRef(R, 1)
  /\ ~UsesRef(R, 2) => B = EmptyDef
  /\ (A.data = <<>> /\ B.data = <<>>) => D = <<>>
  /\ ~UsesRef(D, 3) => C = EmptyDef

Init ==
  \E n \in 1..Len(Docs), R \in Roots, A \in DefsA, B \in DefsB, C \in DefsC, D \in DataObjs :
    /\ WellFormed(R, A, B, C, D)
    /\ doc = n
    /\ defs = <<A, B, C>>
    /\ datas = <<R, D>>
    /\ schema0 = [defs |-> <<A, B, C>>, datas |-> <<R, D>>]
    /\ calls = 0
    /\ outcome = <<>>
    /\ trace = <<>>

\* one call scrapeIt.scrapeHTML($, opts) on the loaded document and the
\* caller's schema object; its result or its exception is recorded
ScrapeHTML ==
  /\ calls < MaxCalls
  /\ LET r == scrapeHTML(Heap(defs, datas, <<>>), Docs[doc])
     IN /\ defs' = r.st.defs
        /\ datas' = r.st.datas
        /\ trace' = r.st.trace
        /\ outcome' = Append(outcome, r.val)
  /\ calls' = calls + 1
  /\ UNCHANGED <<doc, schema0>>

Next == ScrapeHTML

Spec == Init /\ [][Next]_vars

\* ------------------------------------------------------------ the claims
Document == Docs[doc]
\* the schema as the caller wrote it: its root entries and a field's definition
RootFields == schema0.datas[1]
Written(fd) == IF fd.t = "str" THEN [EmptyDef EXCEPT !.selector = fd.s] ELSE schema0.defs[fd.r]
WrittenData(g) == IF g.data = <<>> THEN <<>> ELSE schema0.datas[g.data[1]]
Keys(entries) == {entries[i].k : i \in 1..Len(entries)}
Returned(n) == calls >= n /\ ~IsThrow(outcome[n])
EventsOf(kind, name) == SelectSeq(trace, LAMBDA ev: ev.e = kind /\ ev.name = name)
Unscoped(g) == ~Given(g.selector) /\ ~Given(g.listItem)
IsList(g) == Given(g.listItem)
IsNested(g) == ~Given(g.listItem) /\ WrittenData(g) # <<>>
IsScalar(g) == ~Given(g.listItem) /\ WrittenData(g) = <<>>

\* C1: a call fails with NO_ELEMENT_SELECTED exactly when some root field has
\* neither selector nor listItem (so a nested field of that shape never raises it)
C1_RootFieldNeedsSelector ==
  calls >= 1 =>
    ((IsThrow(outcome[1]) /\ outcome[1].code = "NO_ELEMENT_SELECTED")
       <=> \E i \in 1..Len(RootFields) : Unscoped(Written(RootFields[i])))

\* what a root scalar field resolves to before texteq and closest
Matched(g) ==
  LET m == Query(Document, g.selector, Undef)
  IN IF g.eq = <<>> THEN m ELSE Eq(m, g.eq[1])

TextChildren(el) == SelectSeq(Contents(Document, el), LAMBDA c: Document[c].type = "text")

\* nothing matched: no selector match, eq or texteq out of range, attribute missing
NothingMatched(g) ==
  IF IsList(g) THEN Query(Document, g.listItem, Undef).ns = <<>>
  ELSE \/ Matched(g).ns = <<>>
       \/ g.texteq # <<>> /\ g.texteq[1] >= Len(TextChildren(Matched(g)))
       \/ /\ IsScalar(g) /\ g.texteq = <<>> /\ Given(g.attr)
          /\ AttrOf(Document, Matched(g).ns, g.attr) = Undefined

RECURSIVE IsEmptyValue(_)
IsEmptyValue(v) ==
  \/ v = EmptyStr
  \/ v = List(<<>>)
  \/ v.t = "rec" /\ \A k \in DOMAIN v.f : IsEmptyValue(v.f[k])

BuiltinHow(g) == g.how.t \in {"none", "name"}

\* C2: with every root field scoped and only built-in accessors, a field for
\* which nothing matched never raises and yields "", [] or a record of those,
\* also when it sets closest or nested data
C2_NothingMatchedIsEmpty ==
  (/\ calls >= 1
   /\ \A i \in 1..Len(RootFields) : ~Unscoped(Written(RootFields[i]))
   /\ \A r \in DOMAIN schema0.defs :
        BuiltinHow(schema0.defs[r]) /\ schema0.defs[r].convert = NONE)
  => \A i \in 1..Len(RootFields) :
       NothingMatched(Written(RootFields[i])) =>
         /\ ~IsThrow(outcome[1])
         /\ IsEmptyValue(outcome[1].f[RootFields[i].k])

\* the trimmed text of each node matched by listItem, in document order
ScalarsOf(items) == [j \in 1..Len(items) |-> Str(Trim(NodeText(Document, items[j])))]

\* C3: a list field with empty or absent data yields one bare scalar (the
\* item's trimmed text) per node matched by listItem, in document order, and
\* never a record, also for an item whose text is empty
C3_ListOfScalars ==
  Returned(1) =>
    \A i \in 1..Len(RootFields) :
      LET g == Written(RootFields[i])
      IN (IsList(g) /\ WrittenData(g) = <<>> /\ g.convert = NONE) =>
           outcome[1].f[RootFields[i].k]
             = List(ScalarsOf(Query(Document, g.listItem, Undef).ns))

\* C4: the returned record has exactly the declared field names as keys, and so
\* has the record of every nested-object field and every entry of a list field
\* with a non-empty sub-schema, whatever the sub-fields are named
C4_KeysAreDeclaredFields ==
  Returned(1) =>
    /\ DOMAIN outcome[1].f = Keys(RootFields)
    /\ \A i \in 1..Len(RootFields) :
         LET g == Written(RootFields[i])
             got == outcome[1].f[RootFields[i].k]
         IN /\ IsNested(g) =>
                 got.t = "rec" /\ DOMAIN got.f = Keys(WrittenData(g))
            /\ (IsList(g) /\ WrittenData(g) # <<>>) =>
                 \A j \in 1..Len(got.items) :
                   LET item == IF g.convert = NONE THEN got.items[j] ELSE got.items[j].of
                   IN item.t = "rec" /\ DOMAIN item.f = Keys(WrittenData(g))

\* C5: convert is called once per scalar field, with the post-trim value and the
\* resolved node, and its result is stored; once per item of a list field, in
\* order, on the unwrapped item (a bare scalar for a list of scalars, the record
\* otherwise); never for a nested-object field
C5_ConvertCalls ==
  (calls = 1 /\ Returned(1)) =>
    \A i \in 1..Len(RootFields) :
      LET g == Written(RootFields[i])
          k == RootFields[i].k
          got == outcome[1].f[k]
          cs == EventsOf("convert", k)
      IN g.convert # NONE =>
           /\ IsScalar(g) =>
                /\ Len(cs) = 1
                /\ Len(EventsOf("scalar", k)) = 1
                /\ cs[1].arg = EventsOf("scalar", k)[1].post
                /\ cs[1].elem = EventsOf("scalar", k)[1].elem
                /\ got = Conv(cs[1].arg)
           /\ IsList(g) =>
                /\ Len(cs) = Len(Query(Document, g.listItem, Undef).ns)
                /\ got = List([j \in 1..Len(cs) |-> Conv(cs[j].arg)])
                /\ \A j \in 1..Len(cs) :
                     IF WrittenData(g) = <<>>
                     THEN cs[j].arg = ScalarsOf(Query(Document, g.listItem, Undef).ns)[j]
                     ELSE cs[j].arg.t = "rec"
           /\ IsNested(g) => Len(cs) = 0 /\ got.t = "rec"

C7_SecondCallSame == calls >= 2 => outcome[2] = outcome[1]

\* the accessor the written definition selects: texteq, then attr, then an
\* explicit how, then "text"
Accessor(g) ==
  IF g.texteq # <<>> THEN DataReader
  ELSE IF Given(g.attr) THEN AttrReader(g.attr)
  ELSE IF g.how # NoHow THEN g.how
  ELSE Name("text")

\* C8: the raw value of a scalar field is read by the accessor chosen by that
\* precedence (a missing value reads as "")
C8_AccessorPrecedence ==
  \A i \in 1..Len(trace) :
    LET ev == trace[i]
    IN ev.e = "scalar" => ev.raw = OrEmpty(ReadKey(Document, Accessor(ev.given), ev.elem))

\* attr was read although the definition also names the accessor "html"
C8_Witness ==
  \E i \in 1..Len(trace) :
    /\ trace[i].e = "scalar"
    /\ trace[i].given.attr = "href"
    /\ trace[i].given.how = Name("html")
    /\ trace[i].raw.t = "str"
    /\ trace[i].raw.s # <<>>
    /\ trace[i].raw = AttrOf(Document, trace[i].elem.ns, "href")

\* C9 as claimed: the items of a list field are the listItem matches inside the
\* element set matched by its selector (inside the context without a selector)
C9_ItemsWithinSelector ==
  \A i \in 1..Len(trace) :
    LET ev == trace[i]
    IN ev.e = "list" =>
         ev.items = Query(Document, ev.listItem,
                          IF Given(ev.selector)
                          THEN Query(Document, ev.selector, ev.context) ELSE ev.context).ns

\* C9 as amended: the items of a list field are the listItem matches inside the
\* current context, whether or not the field has a selector, and the stored
\* sequence has one entry per item
C9_ItemsWithinContext ==
  /\ \A i \in 1..Len(trace) :
       trace[i].e = "list" =>
         trace[i].items = Query(Document, trace[i].listItem, trace[i].context).ns
  /\ (calls >= 1 /\ Returned(calls)) =>
       \A i \in 1..Len(RootFields) :
         IsList(Written(RootFields[i])) =>
           Len(outcome[calls].f[RootFields[i].k].items)
             = Len(Query(Document, Written(RootFields[i]).listItem, Undef).ns)

\* a list field with a selector got an entry for a node outside the selected set
C9_Witness ==
  /\ calls >= 1 /\ Returned(calls)
  /\ \E i \in 1..Len(trace) :
       /\ trace[i].e = "list"
       /\ Given(trace[i].selector)
       /\ trace[i].element.ns # <<>>
       /\ \E j \in 1..Len(trace[i].items) :
            ~InScope(Document, trace[i].items[j], trace[i].element.ns)
       /\ trace[i].name \in DOMAIN outcome[calls].f
       /\ Len(outcome[calls].f[trace[i].name].items) = Len(trace[i].items)

\* C10: after a call every object of the caller's schema is as it was written
C10_SchemaUnchanged ==
  calls >= 1 =>
    /\ \A r \in DOMAIN schema0.defs : defs[r] = schema0.defs[r]
    /\ \A r \in DOMAIN schema0.datas : datas[r] = schema0.datas[r]
====
